---- MODULE Spec2Model ----
(***************************************************************************)
(* Model of the replica placement planner of                               *)
(* src/clustering/administration/tables/generate_config.cc:                *)
(* validate_params, estimate_cost_to_get_up_to_date, pick_best_pairings    *)
(* and table_generate_config.                                              *)
(*                                                                         *)
(* The planner is one coroutine.  Its state is kept in the variables       *)
(* below; every step of it is a pure operator on the record of those       *)
(* variables (State), so that a whole run can also be replayed from any    *)
(* state by the operator Run.                                              *)
(***************************************************************************)
EXTENDS Integers, Sequences, FiniteSets, TLC

(***************************************************************************)
(* Bounds of the model.                                                    *)
(***************************************************************************)
MaxShards == 3
MaxCount == 2
KeysPerShard == 3
MaxActivities == 2

(***************************************************************************)
(* Program constants.                                                      *)
(***************************************************************************)
PRIMARY_USAGE_COST == 10
SECONDARY_USAGE_COST == 8
max_shards == 32

(***************************************************************************)
(* name_string_t values.  std::map and std::set iterate in the order of    *)
(* the names, which is the order of these sequences.                       *)
(***************************************************************************)
ServerOrder == <<"A", "B", "C">>
TagOrder == <<"t1", "t2">>
Servers == {ServerOrder[i] : i \in 1..Len(ServerOrder)}
Tags == {TagOrder[i] : i \in 1..Len(TagOrder)}

\* The elements of the set S of names, in the iteration order of a std::set.
SortedServers(S) == SelectSeq(ServerOrder, LAMBDA x : x \in S)
SortedTags(S) == SelectSeq(TagOrder, LAMBDA x : x \in S)

\* table_id: nil_uuid() stands for a table that does not exist yet.
nil_uuid == "nil"
SomeTable == "table"

(***************************************************************************)
(* Costs are doubles that are 0, 3.0 or a quotient sum / count of small    *)
(* integers; a quotient is kept exact as [num, den].                       *)
(***************************************************************************)
Cost(n, d) == [num |-> n, den |-> d]
CostLess(x, y) == x.num * y.den < y.num * x.den
CostEq(x, y) == x.num * y.den = y.num * x.den

(***************************************************************************)
(* estimate_cost_to_get_up_to_date.  A region is the key interval          *)
(* [lo, hi); shard i of the shard scheme owns                              *)
(* [i * KeysPerShard, (i + 1) * KeysPerShard).  A region_map_t is the set  *)
(* of its pieces [lo, hi, value].                                          *)
(***************************************************************************)
Activities ==
    {"primary_when_safe", "primary", "secondary_up_to_date",
     "secondary_without_primary", "secondary_backfilling",
     "nothing_when_safe", "nothing_when_done_erasing", "nothing"}

get_shard_range(shard) ==
    [lo |-> shard * KeysPerShard, hi |-> (shard + 1) * KeysPerShard]

Max2(a, b) == IF a > b THEN a ELSE b
Min2(a, b) == IF a < b THEN a ELSE b

region_intersection(r, q) == [lo |-> Max2(r.lo, q.lo), hi |-> Min2(r.hi, q.hi)]
region_is_empty(r) == r.lo >= r.hi

\* region_map_t<double>::set: the pieces lose what they share with r, and r
\* becomes a piece of value v.
region_map_set(m, r, v) ==
    {[lo |-> p.lo, hi |-> Min2(p.hi, r.lo), value |-> p.value] :
        p \in {q \in m : q.lo < Min2(q.hi, r.lo)}}
    \cup {[lo |-> Max2(p.lo, r.hi), hi |-> p.hi, value |-> p.value] :
        p \in {q \in m : Max2(q.lo, r.hi) < q.hi}}
    \cup {[lo |-> r.lo, hi |-> r.hi, value |-> v]}

\* activity_cost as it would be with secondary_backfilling_t costing what
\* secondary_up_to_date_t costs.
activity_cost_backfilling_as_up_to_date(a) ==
    CASE a = "primary_when_safe" -> 0
      [] a = "primary" -> 0
      [] a = "secondary_up_to_date" -> 1
      [] a = "secondary_without_primary" -> 2
      [] a = "secondary_backfilling" -> 1
      [] a = "nothing_when_safe" -> 3
      [] a = "nothing_when_done_erasing" -> 3
      [] a = "nothing" -> 3

activity_cost(a) ==
    CASE a = "primary_when_safe" -> 0
      [] a = "primary" -> 0
      [] a = "secondary_up_to_date" -> 1
      [] a = "secondary_without_primary" -> 2
      [] a = "secondary_backfilling" -> 2
      [] a = "nothing_when_safe" -> 3
      [] a = "nothing_when_done_erasing" -> 3
      [] a = "nothing" -> 3

RECURSIVE costs_after(_, _, _)
costs_after(activities, shard, costs) ==
    IF activities = <<>> THEN costs
    ELSE LET it == Head(activities)
             intersection == region_intersection(it.region, shard)
         IN  costs_after(Tail(activities), shard,
                 IF ~region_is_empty(intersection)
                 THEN region_map_set(costs, intersection, activity_cost(it.activity))
                 ELSE costs)

RECURSIVE SumValues(_)
SumValues(m) ==
    IF m = {} THEN 0
    ELSE LET p == CHOOSE q \in m : TRUE IN p.value + SumValues(m \ {p})

estimate_cost_to_get_up_to_date(business_card, shard) ==
    LET costs == costs_after(business_card, shard,
                     {[lo |-> shard.lo, hi |-> shard.hi, value |-> 3]})
    IN  Cost(SumValues(costs), Cardinality(costs))

(***************************************************************************)
(* calculate_server_usage.  operator[] of the usage map makes an entry of  *)
(* 0 for a server the map does not hold.                                   *)
(***************************************************************************)
add_usage(usage, server, n) ==
    IF server \in DOMAIN usage
    THEN [usage EXCEPT ![server] = @ + n]
    ELSE (server :> n) @@ usage

RECURSIVE add_replicas(_, _)
add_replicas(usage, replica_names) ==
    IF replica_names = <<>> THEN usage
    ELSE add_replicas(add_usage(usage, Head(replica_names), SECONDARY_USAGE_COST),
                      Tail(replica_names))

\* shard_usage as it would be if the director were given PRIMARY_USAGE_COST
\* on top of its replica's SECONDARY_USAGE_COST.
shard_usage_with_whole_primary_cost(usage, shard) ==
    add_usage(add_replicas(usage, SortedServers(shard.replica_names)),
              shard.director_names[1], PRIMARY_USAGE_COST)

\* Lines 45-48: what one shard adds.
shard_usage(usage, shard) ==
    add_usage(add_replicas(usage, SortedServers(shard.replica_names)),
              shard.director_names[1], PRIMARY_USAGE_COST - SECONDARY_USAGE_COST)

RECURSIVE usage_from(_, _, _)
usage_from(config, i, usage) ==
    IF i \notin DOMAIN config.shards THEN usage
    ELSE usage_from(config, i + 1, shard_usage(usage, config.shards[i]))

calculate_server_usage(config, usage) == usage_from(config, 0, usage)

(***************************************************************************)
(* validate_params.  An error message is the tuple of its kind and of the  *)
(* names it prints; <<>> is no error.                                      *)
(***************************************************************************)
NoError == <<>>

RECURSIVE claim_servers(_, _)
claim_servers(todo, servers_claimed) ==
    IF todo = <<>> THEN NoError
    ELSE LET name == Head(todo).name
             tag == Head(todo).tag
         IN  IF name \notin DOMAIN servers_claimed
             THEN claim_servers(Tail(todo), servers_claimed @@ (name :> tag))
             ELSE <<"overlap", tag, servers_claimed[name], name>>

RECURSIVE Flatten(_)
Flatten(seqs) == IF seqs = <<>> THEN <<>> ELSE Head(seqs) \o Flatten(Tail(seqs))

\* The (tag, server) pairs the overlap loop visits, in its order.
claimed_pairs(params, servers_with_tags) ==
    LET tags == SelectSeq(SortedTags(DOMAIN params.num_replicas),
                          LAMBDA t : params.num_replicas[t] # 0)
        of(t) == LET ss == SortedServers(servers_with_tags[t])
                 IN  [i \in 1..Len(ss) |-> [tag |-> t, name |-> ss[i]]]
    IN  Flatten([i \in 1..Len(tags) |-> of(tags[i])])

\* The test of line 62 as it would be with >= for >.
shards_too_many_at_limit(num_shards) == num_shards >= max_shards

\* Line 62.
shards_too_many(num_shards) == num_shards > max_shards

validate_params(params, servers_with_tags) ==
    IF params.num_shards <= 0 THEN <<"no_shards">>
    ELSE IF shards_too_many(params.num_shards) THEN <<"max_shards">>
    ELSE IF \/ params.director_tag \notin DOMAIN params.num_replicas
            \/ params.num_replicas[params.director_tag] = 0
         THEN <<"director_tag", params.director_tag>>
    ELSE claim_servers(claimed_pairs(params, servers_with_tags), <<>>)

(***************************************************************************)
(* pairing_t and server_pairings_t.  A std::multiset is the sequence of    *)
(* its elements in iteration order; insert puts an element after every     *)
(* element that is not greater than it (the upper bound).                  *)
(***************************************************************************)
pairing_less(x, y) == CostLess(x.backfill_cost, y.backfill_cost)

pairings_insert(ps, p) ==
    LET k == Cardinality({i \in 1..Len(ps) : ~pairing_less(p, ps[i])})
    IN  SubSeq(ps, 1, k) \o <<p>> \o SubSeq(ps, k + 1, Len(ps))

\* operator< as it would be if it did not compare self_usage_cost.
server_pairings_less_without_self_usage(x, y) ==
    IF pairing_less(Head(x.pairings), Head(y.pairings)) THEN TRUE
    ELSE IF pairing_less(Head(y.pairings), Head(x.pairings)) THEN FALSE
    ELSE x.other_usage_cost < y.other_usage_cost

\* operator< on counted_t<countable_wrapper_t<server_pairings_t> >; both
\* arguments hold at least one pairing.
server_pairings_less(x, y) ==
    IF x.self_usage_cost < y.self_usage_cost THEN TRUE
    ELSE IF x.self_usage_cost > y.self_usage_cost THEN FALSE
    ELSE IF pairing_less(Head(x.pairings), Head(y.pairings)) THEN TRUE
    ELSE IF pairing_less(Head(y.pairings), Head(x.pairings)) THEN FALSE
    ELSE x.other_usage_cost < y.other_usage_cost

\* multiset_insert as it would be if the element were put at the front.
multiset_insert_at_front(ms, x) == <<x>> \o ms

\* std::multiset::insert: after the elements that are not greater.
multiset_insert(ms, x) ==
    LET k == Cardinality({i \in 1..Len(ms) : ~server_pairings_less(x, ms[i])})
    IN  SubSeq(ms, 1, k) \o <<x>> \o SubSeq(ms, k + 1, Len(ms))

RECURSIVE multiset_of(_, _)
multiset_of(sps, ms) ==
    IF sps = <<>> THEN ms
    ELSE multiset_of(Tail(sps),
             IF Head(sps).pairings # <<>> THEN multiset_insert(ms, Head(sps)) ELSE ms)

\* The multiset built from the map `pairings`, visited in the order of its keys.
multiset_from_map(pairings) ==
    LET keys == SortedServers(DOMAIN pairings)
    IN  multiset_of([i \in 1..Len(keys) |-> pairings[keys[i]]], <<>>)

(***************************************************************************)
(* The state of one call of table_generate_config: its arguments, what it  *)
(* reads from the cluster, and its locals.                                 *)
(***************************************************************************)
VARIABLES
    params,                 \* [num_shards, num_replicas, director_tag]
    table_id,               \* nil_uuid, or the id of an existing table
    live_tags,              \* name_client->get_servers_with_tag
    name_to_machine_id_map, \* server name -> how many machine ids carry it
    peer_id_for_machine,    \* server's machine -> whether it has a peer id
    directory_view,         \* server's peer -> its entry in the directory
    server_usage,           \* server name -> usage by the other tables
    interruptor,            \* whether the interruptor is pulsed
    pc,                     \* where the planner is
    servers_with_tags,      \* the snapshot of the tag lists
    directory_metadata,     \* server name -> the activities of its business card
    config_out,             \* [shards]: shard -> [replica_names, director_names]
    error_out,
    total_replicas,
    it,                     \* position in params.num_replicas
    srv,                    \* position in servers_with_tags.at(server_tag)
    pairings,               \* server name -> server_pairings_t
    s,                      \* the multiset handed to pick_best_pairings
    shard_replicas,         \* locals of pick_best_pairings
    pb_total_replicas,
    pb_num_replicas,
    pb_usage_cost,
    estimate_call           \* a call of estimate_cost_to_get_up_to_date

vars ==
    <<params, table_id, live_tags, name_to_machine_id_map, peer_id_for_machine,
      directory_view, server_usage, interruptor, pc, servers_with_tags,
      directory_metadata, config_out, error_out, total_replicas, it, srv,
      pairings, s, shard_replicas, pb_total_replicas, pb_num_replicas,
      pb_usage_cost, estimate_call>>

State ==
    [params |-> params, table_id |-> table_id, live_tags |-> live_tags,
     name_to_machine_id_map |-> name_to_machine_id_map,
     peer_id_for_machine |-> peer_id_for_machine,
     directory_view |-> directory_view, server_usage |-> server_usage,
     interruptor |-> interruptor, pc |-> pc,
     servers_with_tags |-> servers_with_tags,
     directory_metadata |-> directory_metadata, config_out |-> config_out,
     error_out |-> error_out, total_replicas |-> total_replicas, it |-> it,
     srv |-> srv, pairings |-> pairings, s |-> s,
     shard_replicas |-> shard_replicas,
     pb_total_replicas |-> pb_total_replicas,
     pb_num_replicas |-> pb_num_replicas, pb_usage_cost |-> pb_usage_cost]

\* The next state is the record st.
Becomes(st) ==
    /\ params' = st.params
    /\ table_id' = st.table_id
    /\ live_tags' = st.live_tags
    /\ name_to_machine_id_map' = st.name_to_machine_id_map
    /\ peer_id_for_machine' = st.peer_id_for_machine
    /\ directory_view' = st.directory_view
    /\ server_usage' = st.server_usage
    /\ interruptor' = st.interruptor
    /\ pc' = st.pc
    /\ servers_with_tags' = st.servers_with_tags
    /\ directory_metadata' = st.directory_metadata
    /\ config_out' = st.config_out
    /\ error_out' = st.error_out
    /\ total_replicas' = st.total_replicas
    /\ it' = st.it
    /\ srv' = st.srv
    /\ pairings' = st.pairings
    /\ s' = st.s
    /\ shard_replicas' = st.shard_replicas
    /\ pb_total_replicas' = st.pb_total_replicas
    /\ pb_num_replicas' = st.pb_num_replicas
    /\ pb_usage_cost' = st.pb_usage_cost
    /\ UNCHANGED estimate_call

\* Where a call has ended: it returned true, returned false, threw
\* interrupted_exc_t, failed a guarantee(), or ran into undefined behaviour.
FinalPcs == {"done", "failed", "interrupted", "crashed", "undefined"}

\* maybe_yield as it would be without the test of the interruptor.
maybe_yield_without_test(st, next) == [st EXCEPT !.pc = next]

\* long_calculation_yielder_t::maybe_yield, followed by a move to `next`.
maybe_yield(st, next) ==
    IF st.interruptor THEN [st EXCEPT !.pc = "interrupted"]
    ELSE [st EXCEPT !.pc = next]

(***************************************************************************)
(* table_generate_config, step by step.                                    *)
(***************************************************************************)

\* Lines 246-260: copy the tag lists of every tag of num_replicas, and of
\* the director tag, to servers_with_tags.
fetch_tags(st) ==
    [st EXCEPT
        !.servers_with_tags =
            [t \in DOMAIN st.params.num_replicas \cup {st.params.director_tag}
                |-> st.live_tags[t]],
        !.pc = "validate"]

\* std::vector::resize: the shards that exist stay, new ones are empty.
resize(shards, n) ==
    [i \in 0..(n - 1) |->
        IF i \in DOMAIN shards THEN shards[i]
        ELSE [replica_names |-> {}, director_names |-> <<>>]]

\* validate as it would be if config_out were resized before the checks.
validate_after_resize(st) ==
    LET e == validate_params(st.params, st.servers_with_tags)
        st1 == [st EXCEPT !.config_out = [shards |-> resize(st.config_out.shards,
                                                            st.params.num_shards)]]
    IN  IF e # NoError
        THEN [st1 EXCEPT !.error_out = e, !.pc = "failed"]
        ELSE [st1 EXCEPT !.pc = "fetch_directory"]

\* Lines 262-264.
validate(st) ==
    LET e == validate_params(st.params, st.servers_with_tags)
    IN  IF e # NoError
        THEN [st EXCEPT !.error_out = e, !.pc = "failed"]
        ELSE [st EXCEPT !.pc = "fetch_directory"]

\* Lines 275-309: what the visit of server jt adds to `colliding`, to
\* `missing` and to directory_metadata.
is_colliding(st, jt) == st.name_to_machine_id_map[jt] > 1

\* is_missing as it would be without the test of the directory entry
\* (line 296).
is_missing_ignoring_directory(st, jt) ==
    /\ ~is_colliding(st, jt)
    /\ \/ st.name_to_machine_id_map[jt] = 0
       \/ ~st.peer_id_for_machine[jt]

is_missing(st, jt) ==
    /\ ~is_colliding(st, jt)
    /\ \/ st.name_to_machine_id_map[jt] = 0
       \/ ~st.peer_id_for_machine[jt]
       \/ ~st.directory_view[jt].present

has_bcard(st, jt) ==
    /\ ~is_colliding(st, jt)
    /\ ~is_missing(st, jt)
    /\ st.directory_view[jt].has_bcard

\* The servers the directory is read for.
servers_to_look_up(st) ==
    UNION {st.servers_with_tags[t] : t \in DOMAIN st.servers_with_tags}

\* Lines 266-322.
fetch_directory(st) ==
    IF st.table_id # nil_uuid
    THEN LET all == servers_to_look_up(st)
             missing == {jt \in all : is_missing(st, jt)}
             colliding == {jt \in all : is_colliding(st, jt)}
             found == {jt \in all : has_bcard(st, jt)}
             st1 == [st EXCEPT !.directory_metadata =
                        [jt \in found |-> st.directory_view[jt].activities]]
         IN  IF missing # {}
             THEN [st1 EXCEPT !.error_out = <<"missing", Head(SortedServers(missing))>>,
                              !.pc = "failed"]
             ELSE IF colliding # {}
             THEN [st1 EXCEPT !.error_out =
                                  <<"colliding", Head(SortedServers(colliding))>>,
                              !.pc = "failed"]
             ELSE [st1 EXCEPT !.pc = "allocate"]
    ELSE [st EXCEPT !.pc = "allocate"]

\* Lines 324-329.
allocate(st) ==
    LET st1 == maybe_yield(st, "tag_loop")
    IN  IF st1.pc = "interrupted" THEN st1
        ELSE [st1 EXCEPT
                !.config_out = [shards |-> resize(st.config_out.shards,
                                                  st.params.num_shards)],
                !.total_replicas = 0,
                !.it = 1]

\* The keys of params.num_replicas in iteration order, and the one at `it`.
replica_tags(st) == SortedTags(DOMAIN st.params.num_replicas)
server_tag(st) == replica_tags(st)[st.it]
servers_in_tag(st) == SortedServers(st.servers_with_tags[server_tag(st)])

\* The test of line 339 as it would be with <= for <.
too_few_servers_or_as_many(num_in_tag, count) == num_in_tag <= count

\* Line 339.
too_few_servers(num_in_tag, count) == num_in_tag < count

\* The size read at line 339 as it would be if it queried the live tags.
num_in_tag_live(st) == Cardinality(st.live_tags[server_tag(st)])

\* Line 339: servers_with_tags.at(it->first).size().
num_in_tag(st) == Cardinality(st.servers_with_tags[server_tag(st)])

\* Lines 329-348: the head of the loop over params.num_replicas.
tag_loop(st) ==
    IF st.it > Len(replica_tags(st)) THEN [st EXCEPT !.pc = "final_check"]
    ELSE LET count == st.params.num_replicas[server_tag(st)]
         IN  IF count = 0 THEN [st EXCEPT !.it = @ + 1]
             ELSE IF too_few_servers(num_in_tag(st), count)
             THEN [st EXCEPT
                     !.total_replicas = @ + count,
                     !.error_out = <<"too_few_servers", server_tag(st)>>,
                     !.pc = "failed"]
             ELSE [st EXCEPT
                     !.total_replicas = @ + count,
                     !.pairings = <<>>,
                     !.srv = 1,
                     !.pc = "build_pairings"]

\* Lines 358-372: the backfill cost of the pairing of `server` and `shard`.
backfill_cost_for(st, server, shard) ==
    IF st.table_id = nil_uuid
    THEN IF server \notin DOMAIN st.directory_metadata
         THEN Cost(3, 1)
         ELSE estimate_cost_to_get_up_to_date(
                  st.directory_metadata[server], get_shard_range(shard))
    ELSE Cost(0, 1)

RECURSIVE pairings_for(_, _, _, _)
pairings_for(st, server, shard, ps) ==
    IF shard >= st.params.num_shards THEN ps
    ELSE pairings_for(st, server, shard + 1,
             pairings_insert(ps, [shard |-> shard,
                 backfill_cost |-> backfill_cost_for(st, server, shard)]))

\* Lines 349-377: one round of the loop over the servers of the tag.
build_pairings(st) ==
    LET server == servers_in_tag(st)[st.srv]
        sp == [server |-> server,
               self_usage_cost |-> 0,
               other_usage_cost |->
                   IF server \in DOMAIN st.server_usage
                   THEN st.server_usage[server] ELSE 0,
               pairings |-> pairings_for(st, server, 0, <<>>)]
        st1 == [st EXCEPT
                   !.pairings = (server :> sp) @@ st.pairings,
                   !.srv = @ + 1]
    IN  maybe_yield(st1,
            IF st1.srv <= Len(servers_in_tag(st)) THEN "build_pairings"
            ELSE IF server_tag(st) = st.params.director_tag THEN "start_director"
            ELSE "start_replica")

\* Lines 210-212: the locals of pick_best_pairings, and its first loop test.
enter_pick_best_pairings(st, num_replicas, usage_cost, loop, after) ==
    [st EXCEPT
        !.s = multiset_from_map(st.pairings),
        !.shard_replicas = [i \in 0..(st.params.num_shards - 1) |-> 0],
        !.pb_total_replicas = 0,
        !.pb_num_replicas = num_replicas,
        !.pb_usage_cost = usage_cost,
        !.pc = IF 0 < st.params.num_shards * num_replicas THEN loop ELSE after]

\* Lines 397-411.
start_director(st) ==
    enter_pick_best_pairings(st, 1, PRIMARY_USAGE_COST,
                             "pick_director", "start_replica")

\* replicas_left as it would be if the director did not count as a replica.
replicas_left_besides_director(st) == st.params.num_replicas[server_tag(st)]

\* Line 441.
replicas_left(st) ==
    st.params.num_replicas[server_tag(st)]
        - (IF server_tag(st) = st.params.director_tag THEN 1 ELSE 0)

\* Lines 432-445.  When pick_best_pairings has nothing to do, the loop over
\* the tags goes on.
start_replica(st) ==
    LET st1 == enter_pick_best_pairings(st, replicas_left(st),
                   SECONDARY_USAGE_COST, "pick_replica", "tag_loop")
    IN  IF st1.pc = "tag_loop" THEN [st1 EXCEPT !.it = @ + 1] ELSE st1

\* erase_shard as it would be if it erased the server's first pairing,
\* whatever its shard.
erase_first_pairing(ps, shard) == IF ps = <<>> THEN <<>> ELSE Tail(ps)

\* pairings[server].pairings without its first pairing of `shard`
\* (lines 420-427).
RECURSIVE erase_shard(_, _)
erase_shard(ps, shard) ==
    IF ps = <<>> THEN <<>>
    ELSE IF Head(ps).shard = shard THEN Tail(ps)
    ELSE <<Head(ps)>> \o erase_shard(Tail(ps), shard)

\* director_callback as it would be if it left the director's pairing in
\* `pairings`.
director_callback_keeps_pairing(st, shard, server) ==
    IF st.config_out.shards[shard].director_names # <<>>
    THEN [st EXCEPT !.pc = "crashed"]
    ELSE [st EXCEPT
            !.config_out.shards[shard].replica_names = @ \cup {server},
            !.config_out.shards[shard].director_names = Append(@, server),
            !.pairings[server].self_usage_cost = @ + PRIMARY_USAGE_COST]

\* Lines 412-428: the callback of the director round.  Its guarantee()
\* ends the program when the shard has a director.
director_callback(st, shard, server) ==
    IF st.config_out.shards[shard].director_names # <<>>
    THEN [st EXCEPT !.pc = "crashed"]
    ELSE [st EXCEPT
            !.config_out.shards[shard].replica_names = @ \cup {server},
            !.config_out.shards[shard].director_names = Append(@, server),
            !.pairings[server].self_usage_cost = @ + PRIMARY_USAGE_COST,
            !.pairings[server].pairings = erase_shard(@, shard)]

\* Lines 446-448: the callback of the replica round.
replica_callback(st, shard, server) ==
    [st EXCEPT !.config_out.shards[shard].replica_names = @ \cup {server}]

callback(st, shard, server) ==
    IF st.pc = "pick_director" THEN director_callback(st, shard, server)
    ELSE replica_callback(st, shard, server)

\* The test of line 216 as it would be with <= for <.
shard_has_room_at_cap(st, shard) == st.shard_replicas[shard] <= st.pb_num_replicas

\* Line 216.
shard_has_room(st, shard) == st.shard_replicas[shard] < st.pb_num_replicas

\* Lines 212-227: one round of the loop of pick_best_pairings, and the
\* loop test that follows it.  `after` is where the caller goes on.
pick_round(st, after) ==
    IF st.s = <<>> THEN [st EXCEPT !.pc = "undefined"]
    ELSE
    LET sp == Head(st.s)
        p == Head(sp.pairings)
        place == shard_has_room(st, p.shard)
        st1 == IF place THEN callback(st, p.shard, sp.server) ELSE st
        sp1 == [sp EXCEPT
                   !.self_usage_cost = IF place THEN @ + st.pb_usage_cost ELSE @,
                   !.pairings = Tail(@)]
        st2 == [st1 EXCEPT
                   !.shard_replicas[p.shard] = IF place THEN @ + 1 ELSE @,
                   !.pb_total_replicas = IF place THEN @ + 1 ELSE @,
                   !.s = IF sp1.pairings # <<>>
                         THEN multiset_insert(Tail(st.s), sp1)
                         ELSE Tail(st.s)]
    IN  IF st1.pc = "crashed" THEN st1
        ELSE maybe_yield(st2,
                 IF st2.pb_total_replicas < st.params.num_shards * st.pb_num_replicas
                 THEN st.pc ELSE after)

pick_director(st) == pick_round(st, "start_replica")

\* After the replica round the loop over the tags goes on.
pick_replica(st) ==
    LET st1 == pick_round(st, "tag_loop")
    IN  IF st1.pc = "tag_loop" THEN [st1 EXCEPT !.it = @ + 1] ELSE st1

\* Lines 451-456: the guarantee()s, and the return.
final_check(st) ==
    IF \A shard \in 0..(st.params.num_shards - 1) :
          /\ Cardinality(st.config_out.shards[shard].replica_names) = st.total_replicas
          /\ Len(st.config_out.shards[shard].director_names) = 1
    THEN [st EXCEPT !.pc = "done"]
    ELSE [st EXCEPT !.pc = "crashed"]

\* The step the planner takes from st.
Step(st) ==
    CASE st.pc = "fetch_tags" -> fetch_tags(st)
      [] st.pc = "validate" -> validate(st)
      [] st.pc = "fetch_directory" -> fetch_directory(st)
      [] st.pc = "allocate" -> allocate(st)
      [] st.pc = "tag_loop" -> tag_loop(st)
      [] st.pc = "build_pairings" -> build_pairings(st)
      [] st.pc = "start_director" -> start_director(st)
      [] st.pc = "pick_director" -> pick_director(st)
      [] st.pc = "start_replica" -> start_replica(st)
      [] st.pc = "pick_replica" -> pick_replica(st)
      [] st.pc = "final_check" -> final_check(st)

\* The state in which the call that is at st ends, when nothing interferes.
RECURSIVE Run(_)
Run(st) == IF st.pc \in FinalPcs THEN st ELSE Run(Step(st))

(***************************************************************************)
(* The arguments of a call and the state of the cluster it reads.          *)
(***************************************************************************)
ReplicaMaps == UNION {[D -> 0..MaxCount] : D \in SUBSET Tags}

ParamsOf(shard_counts) ==
    [num_shards : shard_counts, num_replicas : ReplicaMaps, director_tag : Tags]

TagLists == [Tags -> SUBSET Servers]

\* server_usage: a server that is absent has no replica of another table, one
\* that is present holds one secondary replica.
UsageMaps == UNION {[U -> {SECONDARY_USAGE_COST}] : U \in SUBSET Servers}

WholeKeySpace == [lo |-> 0, hi |-> (MaxShards + 1) * KeysPerShard]
FirstKey == [lo |-> 0, hi |-> 1]

\* What the cluster knows of one server: how many machine ids carry its
\* name, whether its machine has a peer id, and the entry of the peer in the
\* directory (with the activities of the business card for the table).
Known(entry) == [machines |-> 1, peer |-> TRUE, entry |-> entry]
Entry(acts) == [present |-> TRUE, has_bcard |-> TRUE, activities |-> acts]
NoBcard == [present |-> TRUE, has_bcard |-> FALSE, activities |-> <<>>]
NoEntry == [present |-> FALSE, has_bcard |-> FALSE, activities |-> <<>>]
Activity(region, activity) == [region |-> region, activity |-> activity]

PrimaryEverywhere == Known(Entry(<<Activity(WholeKeySpace, "primary")>>))
NothingEverywhere == Known(Entry(<<Activity(WholeKeySpace, "nothing")>>))
SecondaryOfFirstKey == Known(Entry(<<Activity(FirstKey, "secondary_up_to_date")>>))
WithoutBcard == Known(NoBcard)
Colliding == [machines |-> 2, peer |-> TRUE, entry |-> Entry(<<>>)]
NoMachine == [machines |-> 0, peer |-> FALSE, entry |-> NoEntry]
NoPeer == [machines |-> 1, peer |-> FALSE, entry |-> NoEntry]
NoDirectoryEntry == Known(NoEntry)

\* Clusters in which every server is known and reachable.
HealthyClusters ==
    {("A" :> PrimaryEverywhere) @@ ("B" :> NothingEverywhere) @@ ("C" :> WithoutBcard),
     ("A" :> SecondaryOfFirstKey) @@ ("B" :> WithoutBcard) @@ ("C" :> PrimaryEverywhere)}

\* Clusters in which any server may be unknown, unreachable or ambiguous.
AnyClusters ==
    [Servers -> {PrimaryEverywhere, WithoutBcard, Colliding, NoMachine, NoPeer,
                 NoDirectoryEntry}]

\* No call of estimate_cost_to_get_up_to_date is looked at.
NoEstimate == [business_card |-> <<>>, shard |-> get_shard_range(0),
               returned |-> FALSE, result |-> Cost(0, 1)]

\* The state at the call of table_generate_config.
InitPlanner(all_params, table_ids, tag_lists, clusters, usages) ==
    /\ params \in all_params
    /\ table_id \in table_ids
    /\ live_tags \in tag_lists
    /\ \E c \in clusters :
          /\ name_to_machine_id_map = [x \in Servers |-> c[x].machines]
          /\ peer_id_for_machine = [x \in Servers |-> c[x].peer]
          /\ directory_view = [x \in Servers |-> c[x].entry]
    /\ server_usage \in usages
    /\ interruptor = FALSE
    /\ pc = "fetch_tags"
    /\ servers_with_tags = <<>>
    /\ directory_metadata = <<>>
    /\ config_out = [shards |-> <<>>]
    /\ error_out = NoError
    /\ total_replicas = 0
    /\ it = 0
    /\ srv = 0
    /\ pairings = <<>>
    /\ s = <<>>
    /\ shard_replicas = <<>>
    /\ pb_total_replicas = 0
    /\ pb_num_replicas = 0
    /\ pb_usage_cost = 0

InitWith(all_params, table_ids, clusters, usages) ==
    /\ InitPlanner(all_params, table_ids, TagLists, clusters, usages)
    /\ estimate_call = NoEstimate

Init ==
    InitWith(ParamsOf(0..MaxShards), {nil_uuid, SomeTable}, HealthyClusters, UsageMaps)

FetchTags == pc = "fetch_tags" /\ Becomes(fetch_tags(State))
Validate == pc = "validate" /\ Becomes(validate(State))
FetchDirectory == pc = "fetch_directory" /\ Becomes(fetch_directory(State))
Allocate == pc = "allocate" /\ Becomes(allocate(State))
TagLoop == pc = "tag_loop" /\ Becomes(tag_loop(State))
BuildPairings == pc = "build_pairings" /\ Becomes(build_pairings(State))
StartDirector == pc = "start_director" /\ Becomes(start_director(State))
PickDirector == pc = "pick_director" /\ Becomes(pick_director(State))
StartReplica == pc = "start_replica" /\ Becomes(start_replica(State))
PickReplica == pc = "pick_replica" /\ Becomes(pick_replica(State))
FinalCheck == pc = "final_check" /\ Becomes(final_check(State))

Next ==
    \/ FetchTags
    \/ Validate
    \/ FetchDirectory
    \/ Allocate
    \/ TagLoop
    \/ BuildPairings
    \/ StartDirector
    \/ PickDirector
    \/ StartReplica
    \/ PickReplica
    \/ FinalCheck

Spec == Init /\ [][Next]_vars

(***************************************************************************)
(* Other sets of calls.  SpecValidate runs the copy of the tag lists and   *)
(* validate_params alone, on shard counts around max_shards.  SpecDir      *)
(* runs the planner in clusters whose servers may be unknown, unreachable  *)
(* or ambiguous.                                                           *)
(***************************************************************************)
ShardCountsAtLimits == {0, 1, max_shards - 1, max_shards, max_shards + 1}

InitValidate ==
    InitWith(ParamsOf(ShardCountsAtLimits), {nil_uuid, SomeTable}, HealthyClusters,
             {<<>>})

NextValidate ==
    \/ FetchTags
    \/ Validate

SpecValidate == InitValidate /\ [][NextValidate]_vars

InitDir ==
    InitWith([num_shards : 1..2, num_replicas : [Tags -> 0..1], director_tag : Tags],
             {nil_uuid, SomeTable}, AnyClusters, {<<>>})

SpecDir == InitDir /\ [][Next]_vars

\* SpecFail: calls with any of the errors of validate_params and of the
\* reading of the directory.
InitFail ==
    InitWith([num_shards : {0, 1, max_shards + 1}, num_replicas : [Tags -> 0..1],
              director_tag : Tags],
             {nil_uuid, SomeTable}, AnyClusters, {<<>>})

SpecFail == InitFail /\ [][Next]_vars

\* SpecCancel: the interruptor may be pulsed at any moment of a call.
Pulse ==
    /\ pc \notin FinalPcs
    /\ ~interruptor
    /\ interruptor' = TRUE
    /\ UNCHANGED <<params, table_id, live_tags, name_to_machine_id_map,
                   peer_id_for_machine, directory_view, server_usage, pc,
                   servers_with_tags, directory_metadata, config_out, error_out,
                   total_replicas, it, srv, pairings, s, shard_replicas,
                   pb_total_replicas, pb_num_replicas, pb_usage_cost,
                   estimate_call>>

InitCancel ==
    InitWith(ParamsOf(1..MaxShards), {nil_uuid, SomeTable}, HealthyClusters, {<<>>})

NextCancel ==
    \/ Next
    \/ Pulse

SpecCancel == InitCancel /\ [][NextCancel]_vars

\* SpecLive: while the call is suspended in maybe_yield (lines 324, 376, 226)
\* a server gains or loses a tag.
YieldingPcs == {"allocate", "build_pairings", "pick_director", "pick_replica"}

ChangeTags ==
    /\ pc \in YieldingPcs
    /\ \E t \in Tags, x \in Servers :
           live_tags' = [live_tags EXCEPT ![t] =
                            IF x \in @ THEN @ \ {x} ELSE @ \cup {x}]
    /\ UNCHANGED <<params, table_id, name_to_machine_id_map,
                   peer_id_for_machine, directory_view, server_usage,
                   interruptor, pc, servers_with_tags, directory_metadata,
                   config_out, error_out, total_replicas, it, srv, pairings, s,
                   shard_replicas, pb_total_replicas, pb_num_replicas,
                   pb_usage_cost, estimate_call>>

InitLive ==
    InitWith(ParamsOf(1..2), {nil_uuid, SomeTable}, HealthyClusters, {<<>>})

NextLive ==
    \/ Next
    \/ ChangeTags

SpecLive == InitLive /\ [][NextLive]_vars

\* SpecUsage: the caller of a successful call adds the new table's config to
\* the usage map it keeps for the next table.
CalculateServerUsage ==
    /\ pc = "done"
    /\ pc' = "counted"
    /\ server_usage' = calculate_server_usage(config_out, server_usage)
    /\ UNCHANGED <<params, table_id, live_tags, name_to_machine_id_map,
                   peer_id_for_machine, directory_view, interruptor,
                   servers_with_tags, directory_metadata, config_out, error_out,
                   total_replicas, it, srv, pairings, s, shard_replicas,
                   pb_total_replicas, pb_num_replicas, pb_usage_cost,
                   estimate_call>>

NextUsage ==
    \/ Next
    \/ CalculateServerUsage

SpecUsage == Init /\ [][NextUsage]_vars

\* SpecEstimate: one call of estimate_cost_to_get_up_to_date, for the second
\* shard and a business card of at most MaxActivities activities, which never
\* overlap and lie between the key before the shard and the key after it.
EstimatedShard == get_shard_range(1)
Keys == (EstimatedShard.lo - 1)..(EstimatedShard.hi + 1)
Regions == {r \in [lo : Keys, hi : Keys] : r.lo < r.hi}
Overlap(r, q) == ~region_is_empty(region_intersection(r, q))

RECURSIVE BusinessCards(_)
BusinessCards(n) ==
    IF n = 0 THEN {<<>>}
    ELSE LET shorter == BusinessCards(n - 1)
         IN  shorter \cup
             {Append(c, Activity(r, a)) :
                 c \in {b \in shorter : Len(b) = n - 1},
                 r \in Regions, a \in Activities}

NonOverlapping(c) ==
    \A i, j \in 1..Len(c) : i # j => ~Overlap(c[i].region, c[j].region)

InitEstimate ==
    /\ InitPlanner({[num_shards |-> 1, num_replicas |-> <<>>,
                     director_tag |-> TagOrder[1]]},
                   {SomeTable}, {[t \in Tags |-> {}]},
                   {[x \in Servers |-> WithoutBcard]}, {<<>>})
    /\ \E c \in {b \in BusinessCards(MaxActivities) : NonOverlapping(b)} :
           estimate_call = [business_card |-> c, shard |-> EstimatedShard,
                            returned |-> FALSE, result |-> Cost(0, 1)]

Estimate ==
    /\ ~estimate_call.returned
    /\ estimate_call' =
           [estimate_call EXCEPT
               !.returned = TRUE,
               !.result = estimate_cost_to_get_up_to_date(
                              estimate_call.business_card, estimate_call.shard)]
    /\ UNCHANGED <<params, table_id, live_tags, name_to_machine_id_map,
                   peer_id_for_machine, directory_view, server_usage,
                   interruptor, pc, servers_with_tags, directory_metadata,
                   config_out, error_out, total_replicas, it, srv, pairings, s,
                   shard_replicas, pb_total_replicas, pb_num_replicas,
                   pb_usage_cost>>

NextEstimate == Estimate

SpecEstimate == InitEstimate /\ [][NextEstimate]_vars

(***************************************************************************)
(* Vocabulary of the properties.                                           *)
(***************************************************************************)
RECURSIVE SumOver(_, _)
SumOver(f, D) ==
    IF D = {} THEN 0
    ELSE LET x == CHOOSE y \in D : TRUE IN f[x] + SumOver(f, D \ {x})

NumShards == params.num_shards
ShardIds == 0..(NumShards - 1)
ReplicaNames(shard) == config_out.shards[shard].replica_names
DirectorNames(shard) == config_out.shards[shard].director_names
CountOf(tag) == params.num_replicas[tag]
UsedTags == {t \in DOMAIN params.num_replicas : CountOf(t) > 0}

\* The planner has placed everything (it is at, or past, its last checks).
Planned == pc \in {"final_check", "done"}
ErrorKind == IF error_out = NoError THEN "none" ELSE error_out[1]

(***************************************************************************)
(* C1.  When table_generate_config returns success every shard has         *)
(* exactly one director, the director is in the shard's replica set, and   *)
(* the replica set has exactly (sum over the tags of num_replicas[tag])    *)
(* members; the guarantee()s at the end of table_generate_config never     *)
(* fail.  The facts are stated where the guarantee()s are about to be      *)
(* evaluated and after the return.                                         *)
(***************************************************************************)
C1_OneDirectorAndAllReplicas ==
    /\ pc # "crashed"
    /\ Planned =>
          \A shard \in ShardIds :
             /\ Len(DirectorNames(shard)) = 1
             /\ DirectorNames(shard)[1] \in ReplicaNames(shard)
             /\ Cardinality(ReplicaNames(shard))
                   = SumOver(params.num_replicas, DOMAIN params.num_replicas)

\* A call has returned success for several shards and two tags that both
\* place replicas, one of them a director and a second replica.
C1_Witness ==
    /\ pc = "done"
    /\ NumShards >= 2
    /\ Cardinality(UsedTags) = 2
    /\ CountOf(params.director_tag) = 2

(***************************************************************************)
(* C2.  When planning succeeds, for every tag T with count k > 0 the       *)
(* number of (shard, replica) placements whose server belongs to T,        *)
(* summed over the shards, is num_shards * k.                              *)
(***************************************************************************)
PlacementsIn(tag) ==
    SumOver([shard \in ShardIds |->
                Cardinality(ReplicaNames(shard) \cap servers_with_tags[tag])],
            ShardIds)

C2_PlacementsPerTag ==
    Planned => \A tag \in UsedTags : PlacementsIn(tag) = NumShards * CountOf(tag)

C2_Witness ==
    /\ pc = "done"
    /\ NumShards >= 2
    /\ \E t \in UsedTags : t # params.director_tag /\ CountOf(t) = 2

(***************************************************************************)
(* C3.  When a new table is planned (table_id is nil_uuid) every pairing   *)
(* the planner builds has backfill_cost 0.                                 *)
(***************************************************************************)
C3_NewTableCostsNothing ==
    table_id = nil_uuid =>
        \A x \in DOMAIN pairings : \A i \in 1..Len(pairings[x].pairings) :
            CostEq(pairings[x].pairings[i].backfill_cost, Cost(0, 1))

(***************************************************************************)
(* C4.  When an existing table is planned, a server of the tag that has    *)
(* no business card for the table in the directory gets backfill_cost 3.0  *)
(* for every shard, and a server that has one gets, for each shard, what   *)
(* estimate_cost_to_get_up_to_date returns for its activities and the      *)
(* shard's key range.                                                      *)
(***************************************************************************)
C4_ExistingTableCosts ==
    table_id # nil_uuid =>
        \A x \in DOMAIN pairings : \A i \in 1..Len(pairings[x].pairings) :
            LET p == pairings[x].pairings[i]
            IN  CostEq(p.backfill_cost,
                    IF directory_view[x].has_bcard
                    THEN estimate_cost_to_get_up_to_date(
                             directory_view[x].activities, get_shard_range(p.shard))
                    ELSE Cost(3, 1))

(***************************************************************************)
(* C5.  Scenario S4: an existing table with 2 shards, the servers A and B  *)
(* in the only tag, count 1, A primary over the key ranges of both shards  *)
(* and B nothing.  As claimed: A is the director, and the only replica,    *)
(* of both shards.                                                         *)
(***************************************************************************)
S4Case ==
    /\ table_id # nil_uuid
    /\ NumShards = 2
    /\ params.num_replicas = ("t1" :> 1)
    /\ params.director_tag = "t1"
    /\ servers_with_tags = ("t1" :> {"A", "B"})
    /\ directory_view["A"] = PrimaryEverywhere.entry
    /\ directory_view["B"] = NothingEverywhere.entry

C5_S4_AIsDirectorOfBoth ==
    (S4Case /\ pc = "done") =>
        \A shard \in ShardIds :
            DirectorNames(shard) = <<"A">> /\ ReplicaNames(shard) = {"A"}

(***************************************************************************)
(* C5, amended.  In scenario S4 one of the two shards has A and the other  *)
(* has B as its director and only replica: self_usage_cost is compared     *)
(* before backfill_cost, so the server that got the first shard comes      *)
(* after the other one for the second shard.                               *)
(***************************************************************************)
C5_S4_OneShardEach ==
    (S4Case /\ pc = "done") =>
        /\ {DirectorNames(shard)[1] : shard \in ShardIds} = {"A", "B"}
        /\ \A shard \in ShardIds :
              /\ Len(DirectorNames(shard)) = 1
              /\ ReplicaNames(shard) = {DirectorNames(shard)[1]}

C5_Witness == S4Case /\ pc = "done" /\ server_usage = <<>>

(***************************************************************************)
(* C6.  Directors land on distinct servers when possible: the numbers of   *)
(* shards directed by any two servers of the director tag differ by at     *)
(* most one, so when the director tag has at least num_shards servers no   *)
(* server is the director of two shards.  It holds of every state of a     *)
(* call, and so of every successful plan.                                  *)
(***************************************************************************)
Directed(x) ==
    Cardinality({shard \in DOMAIN config_out.shards : DirectorNames(shard) = <<x>>})

DirectorServers ==
    IF params.director_tag \in DOMAIN servers_with_tags
    THEN servers_with_tags[params.director_tag] ELSE {}

C6_DirectorsSpread ==
    /\ \A x, y \in DirectorServers : Directed(x) - Directed(y) <= 1
    /\ Cardinality(DirectorServers) >= NumShards =>
          \A x \in DirectorServers : Directed(x) <= 1

\* Scenario S2 has returned: 3 shards, 3 servers, count 1, new table.
C6_Witness ==
    /\ pc = "done"
    /\ table_id = nil_uuid
    /\ NumShards = 3
    /\ DirectorServers = {"A", "B", "C"}
    /\ CountOf(params.director_tag) = 1
    /\ \A x \in DirectorServers : Directed(x) = 1

(***************************************************************************)
(* C7.  validate_params accepts exactly when 1 <= num_shards <= 32,        *)
(* director_tag is a key of num_replicas with count >= 1, and no server    *)
(* is in two tags that both have count > 0.  The right-hand side reads     *)
(* params and the snapshot only, and tags of count 0 are not in it.        *)
(***************************************************************************)
Acceptable ==
    /\ 1 <= NumShards /\ NumShards <= 32
    /\ params.director_tag \in DOMAIN params.num_replicas
    /\ CountOf(params.director_tag) >= 1
    /\ \A t, u \in UsedTags :
          t # u => servers_with_tags[t] \cap servers_with_tags[u] = {}

Validated == pc \notin {"fetch_tags", "validate"}
ValidationErrors == {"no_shards", "max_shards", "director_tag", "overlap"}
Rejected == pc = "failed" /\ ErrorKind \in ValidationErrors

C7_ValidateParams == Validated => (Rejected <=> ~Acceptable)

\* 32 shards are accepted although a tag of count 0 shares a server with the
\* director tag.
C7_Witness ==
    /\ Validated
    /\ ~Rejected
    /\ NumShards = 32
    /\ \E z \in DOMAIN params.num_replicas :
          /\ CountOf(z) = 0
          /\ servers_with_tags[z] \cap servers_with_tags[params.director_tag] # {}

(***************************************************************************)
(* C8.  A tag of count 0 is ignored: the outcome of a call (success, or    *)
(* the failure returned) and its placements are those of the same call     *)
(* with the tag removed from num_replicas, whatever servers the tag has.   *)
(***************************************************************************)
\* The call of st again, with the parameters p.
Call(st, p) ==
    [st EXCEPT
        !.params = p, !.pc = "fetch_tags", !.servers_with_tags = <<>>,
        !.directory_metadata = <<>>, !.config_out = [shards |-> <<>>],
        !.error_out = NoError, !.total_replicas = 0, !.it = 0, !.srv = 0,
        !.pairings = <<>>, !.s = <<>>, !.shard_replicas = <<>>,
        !.pb_total_replicas = 0, !.pb_num_replicas = 0, !.pb_usage_cost = 0]

Outcome(st) == <<st.pc, st.error_out, st.config_out.shards>>

Without(tag) ==
    [params EXCEPT !.num_replicas =
        [t \in DOMAIN params.num_replicas \ {tag} |-> params.num_replicas[t]]]

C8_ZeroCountTagIgnored ==
    pc \in FinalPcs =>
        \A z \in DOMAIN params.num_replicas :
            CountOf(z) = 0 => Outcome(State) = Outcome(Run(Call(State, Without(z))))

(***************************************************************************)
(* C9.  For an existing table whose parameters are valid: if a server of   *)
(* a snapshot tag list has no machine id, no peer id or no directory       *)
(* entry, planning fails with a message that names a missing server; if a  *)
(* server name has more than one machine id, planning fails with the       *)
(* name-collision message; a server without a business card for the table  *)
(* is no error.  For a new table none of this is checked.  As claimed:     *)
(* a colliding name always gives the name-collision message.               *)
(***************************************************************************)
Snapshot == UNION {servers_with_tags[t] : t \in DOMAIN servers_with_tags}
CollidingServers == {x \in Snapshot : name_to_machine_id_map[x] > 1}
MissingServers ==
    {x \in Snapshot :
        \/ name_to_machine_id_map[x] = 0
        \/ name_to_machine_id_map[x] = 1 /\ ~peer_id_for_machine[x]
        \/ name_to_machine_id_map[x] = 1 /\ peer_id_for_machine[x]
              /\ ~directory_view[x].present}

\* The directory has been read (or skipped) by a call with valid parameters.
DirectoryRead == pc \notin {"fetch_tags", "validate", "fetch_directory"} /\ ~Rejected

FailsMissing ==
    pc = "failed" /\ ErrorKind = "missing" /\ error_out[2] \in MissingServers
FailsColliding ==
    pc = "failed" /\ ErrorKind = "colliding" /\ error_out[2] \in CollidingServers
NoDirectoryError == ErrorKind \notin {"missing", "colliding"}

C9_CollisionAlwaysReported ==
    DirectoryRead =>
        IF table_id # nil_uuid
        THEN /\ MissingServers # {} => FailsMissing
             /\ CollidingServers # {} => FailsColliding
             /\ (MissingServers = {} /\ CollidingServers = {}) => NoDirectoryError
        ELSE NoDirectoryError

(***************************************************************************)
(* C9, amended.  As C9, but the name-collision message is given only when  *)
(* no server is missing: when one server is missing and another collides,  *)
(* the message names the missing server.                                   *)
(***************************************************************************)
C9_DirectoryErrors ==
    DirectoryRead =>
        IF table_id # nil_uuid
        THEN /\ MissingServers # {} => FailsMissing
             /\ (CollidingServers # {} /\ MissingServers = {}) => FailsColliding
             /\ (MissingServers = {} /\ CollidingServers = {}) => NoDirectoryError
        ELSE NoDirectoryError

\* The name-collision message has been given in a cluster where another
\* server of the snapshot has no business card for the table.
C9_Witness ==
    /\ FailsColliding
    /\ \E x \in Snapshot :
          name_to_machine_id_map[x] = 1 /\ directory_view[x].present
              /\ ~directory_view[x].has_bcard

(***************************************************************************)
(* C10.  For each tag of count k > 0, in the iteration order of            *)
(* num_replicas: if the snapshot has fewer than k servers with the tag,    *)
(* table_generate_config returns failure and never builds pairings or      *)
(* enters the selector for the tag; if it has at least k, that check does  *)
(* not fail.                                                               *)
(***************************************************************************)
TagIndex(tag) == CHOOSE i \in 1..Len(TagOrder) : TagOrder[i] = tag
Enough(tag) == Cardinality(servers_with_tags[tag]) >= CountOf(tag)
InTagWork ==
    pc \in {"build_pairings", "start_director", "pick_director", "start_replica",
            "pick_replica"}
TagsDone == {t \in UsedTags : TagIndex(t) < TagIndex(server_tag(State))}

C10_ServerCountCheck ==
    /\ InTagWork => Enough(server_tag(State)) /\ \A t \in TagsDone : Enough(t)
    /\ Planned => \A t \in UsedTags : Enough(t)
    /\ ErrorKind = "too_few_servers" =>
          /\ pc = "failed"
          /\ error_out[2] \in UsedTags
          /\ ~Enough(error_out[2])
          /\ \A t \in UsedTags : TagIndex(t) < TagIndex(error_out[2]) => Enough(t)
    /\ (pc = "failed" /\ DirectoryRead /\ NoDirectoryError) =>
          ErrorKind = "too_few_servers"

\* The second tag has too few servers, after the replicas of the first tag
\* were placed.
C10_Witness ==
    /\ ErrorKind = "too_few_servers"
    /\ \E t \in UsedTags : TagIndex(t) < TagIndex(error_out[2])
    /\ \A shard \in ShardIds : ReplicaNames(shard) # {}

(***************************************************************************)
(* C11.  Cancellation is honoured at the next yield point: a step that     *)
(* calls maybe_yield while the interruptor is pulsed ends the call with    *)
(* interrupted_exc_t; after that no placement is made and the call does    *)
(* not return success; in the selector loop at most one placement is made  *)
(* between the pulse and the end, because a round that places with the     *)
(* interruptor pulsed is the last one.                                     *)
(***************************************************************************)
Placements == [shard \in DOMAIN config_out.shards |-> ReplicaNames(shard)]

C11_CancelledAtNextYield ==
    [][/\ (interruptor /\ pc \in YieldingPcs) =>
              pc' = "interrupted"
       /\ (interruptor /\ Placements' # Placements) => pc' = "interrupted"
       /\ pc = "interrupted" =>
              pc' = "interrupted" /\ config_out' = config_out]_vars

\* A call was interrupted in the selector after some, not all, placements.
C11_Witness ==
    /\ pc = "interrupted"
    /\ \E shard \in DOMAIN config_out.shards : ReplicaNames(shard) # {}
    /\ \E shard \in DOMAIN config_out.shards : ReplicaNames(shard) = {}

(***************************************************************************)
(* C12.  The tag lists are read once, at the start of the call: after      *)
(* that read the snapshot never changes, and whatever happens to the live  *)
(* tags while the call is suspended, the call ends as a call does that     *)
(* finds the snapshot's membership live from start to end.                 *)
(***************************************************************************)
MembershipRead ==
    [t \in Tags |-> IF t \in DOMAIN servers_with_tags
                    THEN servers_with_tags[t] ELSE {}]

C12_SnapshotUsed ==
    /\ [](pc \in FinalPcs =>
            Outcome(State) =
                Outcome(Run(Call([State EXCEPT !.live_tags = MembershipRead],
                                 params))))
    /\ [][pc # "fetch_tags" => servers_with_tags' = servers_with_tags]_vars

\* A call succeeded although a tag it placed replicas for had changed its
\* live membership since the read.
C12_Witness ==
    /\ pc = "done"
    /\ \E t \in UsedTags : live_tags[t] # servers_with_tags[t]

(***************************************************************************)
(* C14.  estimate_cost_to_get_up_to_date returns the mean, over the pieces *)
(* that cover the shard's range, of the piece costs: each activity that    *)
(* intersects the range is a piece of cost 0 (primary, primary when safe), *)
(* 1 (secondary up to date), 2 (secondary without primary, secondary       *)
(* backfilling) or 3 (the nothing activities), and each stretch of the     *)
(* range no activity covers is a piece of cost 3.  The result is between 0 *)
(* and 3, is 3 when no activity intersects the range and is 0 when a       *)
(* primary activity covers the whole range.                                *)
(***************************************************************************)
ClaimedCost(a) ==
    IF a \in {"primary", "primary_when_safe"} THEN 0
    ELSE IF a = "secondary_up_to_date" THEN 1
    ELSE IF a \in {"secondary_without_primary", "secondary_backfilling"} THEN 2
    ELSE 3

Card == estimate_call.business_card
Target == estimate_call.shard
Intersecting == {i \in 1..Len(Card) : Overlap(Card[i].region, Target)}
Covered(k) == \E i \in Intersecting : Card[i].region.lo <= k /\ k < Card[i].region.hi
\* The first keys of the stretches of the range that no activity covers.
GapStarts ==
    {k \in Target.lo..(Target.hi - 1) :
        ~Covered(k) /\ (k = Target.lo \/ Covered(k - 1))}
ClaimedMean ==
    Cost(SumOver([i \in Intersecting |-> ClaimedCost(Card[i].activity)], Intersecting)
             + 3 * Cardinality(GapStarts),
         Cardinality(Intersecting) + Cardinality(GapStarts))

C14_EstimateIsMeanOfPieces ==
    estimate_call.returned =>
        LET result == estimate_call.result
        IN  /\ result.den > 0
            /\ CostEq(result, ClaimedMean)
            /\ 0 <= result.num /\ result.num <= 3 * result.den
            /\ Intersecting = {} => CostEq(result, Cost(3, 1))
            /\ (\E i \in 1..Len(Card) :
                    /\ Card[i].activity \in {"primary", "primary_when_safe"}
                    /\ Card[i].region.lo <= Target.lo
                    /\ Target.hi <= Card[i].region.hi)
                => CostEq(result, Cost(0, 1))

\* The estimate of a card with a secondary that is backfilling the middle of
\* the range and nothing known of the keys before and after it: (3 + 2 + 3) / 3.
C14_Witness ==
    /\ estimate_call.returned
    /\ \E i \in Intersecting :
          /\ Card[i].activity = "secondary_backfilling"
          /\ Target.lo < Card[i].region.lo
          /\ Card[i].region.hi < Target.hi
    /\ Cardinality(GapStarts) = 2
    /\ CostEq(estimate_call.result, Cost(8, 3))

(***************************************************************************)
(* C15.  calculate_server_usage, applied to a config the planner made,     *)
(* adds to a server's usage 10 for every shard it directs and 8 for every  *)
(* shard of which it is a replica and not the director; and while the      *)
(* planner selects, the self_usage_cost of every queued server is that     *)
(* same amount for the placements made so far.                             *)
(***************************************************************************)
Directs(x) == {shard \in DOMAIN config_out.shards : DirectorNames(shard) = <<x>>}
OnlyReplicates(x) ==
    {shard \in DOMAIN config_out.shards :
        x \in ReplicaNames(shard) /\ DirectorNames(shard) # <<x>>}
Gain(x) == 10 * Cardinality(Directs(x)) + 8 * Cardinality(OnlyReplicates(x))
UsageOf(usage, x) == IF x \in DOMAIN usage THEN usage[x] ELSE 0

C15_UsageMatchesPlacements ==
    /\ [](pc \in {"pick_director", "pick_replica"} =>
             \A i \in 1..Len(s) : s[i].self_usage_cost = Gain(s[i].server))
    /\ [][pc' = "counted" =>
             \A x \in Servers :
                 UsageOf(server_usage', x) = UsageOf(server_usage, x) + Gain(x)]_vars

\* The usage was counted of a server that held usage already, directs a
\* shard of the new table and only replicates another.
C15_Witness ==
    /\ pc = "counted"
    /\ \E x \in Servers :
          /\ Cardinality(Directs(x)) = 1
          /\ Cardinality(OnlyReplicates(x)) = 1
          /\ UsageOf(server_usage, x) = 8 + 10 + 8

(***************************************************************************)
(* C16.  A run of pick_best_pairings that the planner starts never finds   *)
(* the multiset empty when it takes its first element, holds only servers  *)
(* with at least one pairing left, removes one pairing at every round (so  *)
(* it ends), and ends, unless interrupted, with exactly num_shards *       *)
(* num_replicas placements, num_replicas for every shard.                  *)
(***************************************************************************)
PickPcs == {"pick_director", "pick_replica"}
PairingsLeft == SumOver([i \in 1..Len(s) |-> Len(s[i].pairings)], 1..Len(s))

SelectorSafe ==
    /\ pc \notin {"undefined", "crashed"}
    /\ \A i \in 1..Len(s) : s[i].pairings # <<>>
    /\ pc \in PickPcs =>
          /\ s # <<>>
          /\ pb_total_replicas < NumShards * pb_num_replicas

SelectorRound ==
    pc \in PickPcs =>
        /\ PairingsLeft' = PairingsLeft - 1
        /\ (pc' \notin PickPcs /\ pc' # "interrupted") =>
              /\ pb_total_replicas' = NumShards * pb_num_replicas
              /\ \A shard \in ShardIds : shard_replicas'[shard] = pb_num_replicas

C16_SelectorEndsWithAllPlacements == []SelectorSafe /\ [][SelectorRound]_vars

\* A replica round has ended after two placements for each of several shards.
C16_Witness ==
    /\ pc = "tag_loop"
    /\ NumShards >= 2
    /\ pb_num_replicas = 2
    /\ pb_total_replicas = NumShards * 2

(***************************************************************************)
(* C17.  At every round of the selector the server taken, the first of the *)
(* multiset, has a least key (self_usage_cost, backfill_cost of its        *)
(* cheapest pairing left, other_usage_cost) in lexicographic order: no     *)
(* queued server has a smaller key.  The first pairing of a server is its  *)
(* cheapest, and the whole multiset is in the order of the keys.           *)
(***************************************************************************)
CheapestLeft(sp) ==
    CHOOSE c \in {sp.pairings[i].backfill_cost : i \in 1..Len(sp.pairings)} :
        \A i \in 1..Len(sp.pairings) : ~CostLess(sp.pairings[i].backfill_cost, c)

KeyLess(x, y) ==
    \/ x.self_usage_cost < y.self_usage_cost
    \/ /\ x.self_usage_cost = y.self_usage_cost
       /\ CostLess(CheapestLeft(x), CheapestLeft(y))
    \/ /\ x.self_usage_cost = y.self_usage_cost
       /\ CostEq(CheapestLeft(x), CheapestLeft(y))
       /\ x.other_usage_cost < y.other_usage_cost

C17_SelectorTakesMinimum ==
    pc \in PickPcs =>
        /\ \A i \in 1..Len(s) : ~KeyLess(s[i], s[1])
        /\ \A i, j \in 1..Len(s) : i < j => ~KeyLess(s[j], s[i])
        /\ \A i \in 1..Len(s) :
              CostEq(Head(s[i].pairings).backfill_cost, CheapestLeft(s[i]))

\* A server that has been given a replica and put back is still ahead of
\* another, whose key is greater.
C17_Witness ==
    /\ pc \in PickPcs
    /\ Len(s) >= 2
    /\ s[1].self_usage_cost > 0
    /\ KeyLess(s[1], s[Len(s)])

(***************************************************************************)
(* C18.  In a run of pick_best_pairings no shard is given more than        *)
(* num_replicas placements.  A round whose server's first pairing is for a *)
(* shard that has them all discards the pairing: the config, the counters  *)
(* and the self_usage_cost of every server stay as they are.  Any other    *)
(* round places once: the shard's counter and the total grow by one and    *)
(* the self_usage_cost of the server taken, and of no other, grows by      *)
(* usage_cost.                                                             *)
(***************************************************************************)
Taken == Head(s)
TakenShard == Head(Taken.pairings).shard
SelfUsage(ms, x) == {ms[i].self_usage_cost : i \in {j \in 1..Len(ms) : ms[j].server = x}}
OthersKeepSelfUsage ==
    \A i \in 1..Len(s') :
        s'[i].server # Taken.server => s'[i].self_usage_cost \in SelfUsage(s, s'[i].server)

WithinCap ==
    pc \in PickPcs => \A shard \in ShardIds : shard_replicas[shard] <= pb_num_replicas

DiscardOrPlace ==
    pc \in PickPcs =>
        /\ OthersKeepSelfUsage
        /\ IF shard_replicas[TakenShard] >= pb_num_replicas
           THEN /\ config_out' = config_out
                /\ shard_replicas' = shard_replicas
                /\ pb_total_replicas' = pb_total_replicas
                /\ pairings' = pairings
                /\ SelfUsage(s', Taken.server) \subseteq {Taken.self_usage_cost}
           ELSE /\ Taken.server \in config_out'.shards[TakenShard].replica_names
                /\ shard_replicas' =
                       [shard_replicas EXCEPT ![TakenShard] = @ + 1]
                /\ pb_total_replicas' = pb_total_replicas + 1
                /\ SelfUsage(s', Taken.server)
                       \subseteq {Taken.self_usage_cost + pb_usage_cost}

C18_CapAndDiscard == []WithinCap /\ [][DiscardOrPlace]_vars

\* Pairings have been discarded in the director round: fewer are left than
\* the tag's servers had, less the placements.
C18_Witness ==
    /\ pc = "pick_director"
    /\ pb_total_replicas + PairingsLeft
           < NumShards * Cardinality(servers_with_tags[params.director_tag])
    /\ shard_replicas[TakenShard] = pb_num_replicas

(***************************************************************************)
(* C19.  No server is placed twice on a shard in one call: a queued server *)
(* has no pairing left for a shard it is already a replica of (the         *)
(* director callback removed the director's) and at most one pairing for   *)
(* any shard, so every placement adds to the shard's replica set a server  *)
(* that was not in it.                                                     *)
(***************************************************************************)
NoPairingForOwnShard ==
    pc \in PickPcs =>
        \A i \in 1..Len(s) :
            /\ \A j \in 1..Len(s[i].pairings) :
                  s[i].server \notin ReplicaNames(s[i].pairings[j].shard)
            /\ \A j, k \in 1..Len(s[i].pairings) :
                  j # k => s[i].pairings[j].shard # s[i].pairings[k].shard
            /\ \A k \in 1..Len(s) : k # i => s[k].server # s[i].server

PlacementIsNew ==
    (pc \in PickPcs /\ pb_total_replicas' # pb_total_replicas) =>
        /\ Taken.server \notin ReplicaNames(TakenShard)
        /\ config_out'.shards[TakenShard].replica_names =
               ReplicaNames(TakenShard) \cup {Taken.server}

C19_NoPairPlacedTwice == []NoPairingForOwnShard /\ [][PlacementIsNew]_vars

\* The replica round of the director tag has placed a replica while a
\* server that directs a shard is queued for another.
C19_Witness ==
    /\ pc = "pick_replica"
    /\ pb_total_replicas >= 1
    /\ \E i \in 1..Len(s) : Directs(s[i].server) # {}

(***************************************************************************)
(* C20.  Scenario S3: a new table with 3 shards, the servers A, B and C    *)
(* in the only tag, count 2, the same usage by other tables for the three. *)
(* Every shard gets exactly two replicas and the three directors are       *)
(* distinct, but the replicas are spread unevenly: one server holds a      *)
(* replica of all 3 shards and another of only 1.                          *)
(***************************************************************************)
S3Case ==
    /\ table_id = nil_uuid
    /\ NumShards = 3
    /\ params.num_replicas = ("t1" :> 2)
    /\ params.director_tag = "t1"
    /\ servers_with_tags = ("t1" :> {"A", "B", "C"})
    /\ \A x, y \in Servers : UsageOf(server_usage, x) = UsageOf(server_usage, y)

ReplicasOf(x) == Cardinality({shard \in ShardIds : x \in ReplicaNames(shard)})

C20_S3_UnevenReplicas ==
    (S3Case /\ pc = "done") =>
        /\ \A shard \in ShardIds :
              /\ Cardinality(ReplicaNames(shard)) = 2
              /\ Len(DirectorNames(shard)) = 1
        /\ {DirectorNames(shard)[1] : shard \in ShardIds} = {"A", "B", "C"}
        /\ \E x \in Servers : ReplicasOf(x) = 3
        /\ \E x \in Servers : ReplicasOf(x) = 1

C20_Witness == S3Case /\ pc = "done" /\ server_usage # <<>>

(***************************************************************************)
(* C21.  A call that fails on its parameters (shard count, director tag,   *)
(* overlapping tags) or on the cluster (a missing or a colliding server)   *)
(* leaves config_out as it found it: these failures come only from the     *)
(* steps before the resize of line 326, no step goes back to them, and     *)
(* none of them changes config_out.                                        *)
(***************************************************************************)
ChecksPcs == {"fetch_tags", "validate", "fetch_directory"}
CheckErrors == {"no_shards", "max_shards", "director_tag", "overlap",
                "missing", "colliding"}

ChecksLeaveConfig ==
    /\ pc \in ChecksPcs => config_out' = config_out
    /\ pc' \in ChecksPcs => pc \in ChecksPcs
    /\ (pc' = "failed" /\ ErrorKind' \in CheckErrors) => pc \in ChecksPcs

C21_FailedChecksLeaveConfig ==
    /\ [][ChecksLeaveConfig]_vars
    /\ []((pc = "failed" /\ ErrorKind \in CheckErrors) => config_out.shards = <<>>)

\* A call for one shard failed on a server of the cluster and config_out
\* has no shard.
C21_Witness ==
    /\ pc = "failed"
    /\ ErrorKind \in {"missing", "colliding"}
    /\ NumShards = 1
    /\ config_out.shards = <<>>

====
